---- MODULE Spec2Model ----
(***************************************************************************)
(* WebAssembly 2.0 module model, validator and runtime of                  *)
(* src/wasm/src/webassembly_2_0.rs.                                        *)
(*                                                                         *)
(* The specifications share the variables:                                 *)
(*   Spec          the runtime: load_module and execute_function on one    *)
(*                 WebAssembly2Runtime, modules drawn from ModuleInputs;   *)
(*   SpecObserved  the same runtime with a caller that keeps one output;   *)
(*   SpecStep      the runtime with execute_function taken one loop        *)
(*                 iteration at a time;                                    *)
(*   SpecValidate  the builder API on one module under construction        *)
(*                 (Module::new, enable_feature, pushes onto the public    *)
(*                 vectors) and Module::validate.                          *)
(***************************************************************************)
EXTENDS Integers, Sequences, FiniteSets, TLC

VARIABLES
    modules,                 \* WebAssembly2Runtime.modules
    execution_environments,  \* WebAssembly2Runtime.execution_environments
    performance_stats,       \* WebAssembly2Runtime.performance_stats
    overflow_checks,         \* build profile: i32 `+` panics on overflow (debug) or wraps (release)
    result,                  \* what the last runtime call returned to its caller
    observed,                \* an earlier execute_function call the caller kept: inputs, function, output
    frame,                   \* execute_function_internal in progress: body, position in it, operand stack
    module,                  \* the module a client is building
    validation               \* the ValidationResult last returned for `module`

vars == <<modules, execution_environments, performance_stats, overflow_checks,
          result, observed, frame, module, validation>>

runtimeVars == <<modules, execution_environments, performance_stats, overflow_checks,
                 result, observed, frame>>

builderVars == <<module, validation>>

(***************************************************************************)
(* Bounds of the model.                                                    *)
(***************************************************************************)
MaxModules == 2     \* module ids handed out by ModuleId::new
MaxExec == 3        \* recorded executions per runtime
MaxFunctions == 1   \* functions pushed onto the module under construction

(***************************************************************************)
(* Program constants.                                                      *)
(***************************************************************************)
I32Max == 2147483647
I32Min == -I32Max - 1
EnvMemorySize == 1048576
MicrosPerMilli == 1000

\* Duration::MAX, above every duration a run records; written as the largest
\* integer TLC represents.
DurationMax == 2147483647

None == [none |-> TRUE]

Some(x) == [some |-> x]

IsSome(o) == "some" \in DOMAIN o

(***************************************************************************)
(* Values, instructions, functions.                                        *)
(***************************************************************************)
I32(n) == [type |-> "I32", val |-> n]

I32Const(n) == [op |-> "I32Const", value |-> n]

I32Add == [op |-> "I32Add"]

Return == [op |-> "Return"]

Throw(tag) == [op |-> "Throw", tag |-> tag]

MemoryCopy(src, dst, size) == [op |-> "MemoryCopy", src |-> src, dst |-> dst, size |-> size]

ReturnCall(index) == [op |-> "ReturnCall", index |-> index]

ReturnCallIndirect(index) == [op |-> "ReturnCallIndirect", index |-> index]

V128Add == [op |-> "V128Add"]

TryCatch(label, try, catch) ==
    [op |-> "TryCatch", catch_label |-> label, try_instructions |-> try,
     catch_instructions |-> catch]

TryCatchAll(label, try, catch) ==
    [op |-> "TryCatchAll", catch_all_label |-> label, try_instructions |-> try,
     catch_all_instructions |-> catch]

ExceptionLabel(tag) == [tag |-> tag, exception_type |-> [kind |-> "Basic", of |-> "I32"]]

\* WebAssembly2Function::new followed by the assignments to the public fields
\* body and exception_labels.
Function(index, params, results, body, labels) ==
    [index |-> index, params |-> params, results |-> results, locals |-> <<>>,
     body |-> body, exception_labels |-> labels, supports_tail_call |-> FALSE]

(***************************************************************************)
(* Result<(), ValidationError> and the error variants the validator uses.  *)
(***************************************************************************)
Ok == [ok |-> TRUE]

Err(e) == [ok |-> FALSE, err |-> e]

FeatureDependencyError(feature, required) ==
    [kind |-> "FeatureDependencyError", feature |-> feature, required |-> required]

MultiValueNotSupported == [kind |-> "MultiValueNotSupported"]

InvalidExceptionTag(tag) == [kind |-> "InvalidExceptionTag", tag |-> tag]

ReturnTypeMismatch(expected, actual) ==
    [kind |-> "ReturnTypeMismatch", expected |-> expected, actual |-> actual]

InvalidMemorySize(size) == [kind |-> "InvalidMemorySize", size |-> size]

InvalidSharedMemory == [kind |-> "InvalidSharedMemory"]

InvalidExceptionType == [kind |-> "InvalidExceptionType"]

EmptyExceptionType == [kind |-> "EmptyExceptionType"]

InvalidInstructionInHandler == [kind |-> "InvalidInstructionInHandler"]

InvalidTableSize(size) == [kind |-> "InvalidTableSize", size |-> size]

TypeMismatch(expected, actual) ==
    [kind |-> "TypeMismatch", expected |-> expected, actual |-> actual]

(***************************************************************************)
(* WebAssembly2Function::validate.                                         *)
(***************************************************************************)
HasLabel(function, tag) ==
    \E k \in 1..Len(function.exception_labels) : function.exception_labels[k].tag = tag

\* `let stack: Vec<Value> = Vec::new();` is never pushed to: the validator's
\* operand stack is empty at every instruction.
ValidatorStack == <<>>

\* The loop of validate_body from instruction i on.
RECURSIVE ValidateBodyFrom(_, _)
ValidateBodyFrom(function, i) ==
    IF i > Len(function.body) THEN Ok
    ELSE LET instruction == function.body[i] IN
         CASE instruction.op = "Throw" ->
                  IF ~HasLabel(function, instruction.tag)
                  THEN Err(InvalidExceptionTag(instruction.tag))
                  ELSE ValidateBodyFrom(function, i + 1)
           [] instruction.op = "TryCatch" -> ValidateBodyFrom(function, i + 1)
           [] instruction.op = "Return" ->
                  IF Len(ValidatorStack) # Len(function.results)
                  THEN Err(ReturnTypeMismatch(function.results[1], function.results[1]))
                  ELSE Ok
           [] OTHER -> ValidateBodyFrom(function, i + 1)

ValidateBody(function) == ValidateBodyFrom(function, 1)

\* validate without the check of results.len(): only the body is validated.
FunctionValidateBodyOnly(function) == ValidateBody(function)

FunctionValidate(function) ==
    IF Len(function.results) > 1 THEN Err(MultiValueNotSupported)
    ELSE ValidateBody(function)

(***************************************************************************)
(* WebAssembly2Memory, ExceptionType, ExceptionHandler.                    *)
(***************************************************************************)
PAGE_SIZE == 65536

\* WebAssembly2Memory::new; data is kept by its length (initial stays far below
\* the 65536 pages at which initial * PAGE_SIZE leaves u32).
MemoryNew(index, initial, maximum, memory_type) ==
    [index |-> index, initial |-> initial, maximum |-> maximum,
     data_len |-> initial * PAGE_SIZE,
     shared |-> (memory_type = "Shared"), memory_type |-> memory_type]

\* validate with the maximum compared by <=: a maximum equal to initial is
\* refused.
MemoryValidateMaxInclusive(memory) ==
    IF memory.initial = 0 THEN Err(InvalidMemorySize(memory.initial))
    ELSE IF IsSome(memory.maximum) /\ memory.maximum.some <= memory.initial
         THEN Err(InvalidMemorySize(memory.maximum.some))
    ELSE IF memory.shared /\ memory.memory_type # "Shared" THEN Err(InvalidSharedMemory)
    ELSE Ok

\* validate without the check of the shared flag.
MemoryValidateSharedUnchecked(memory) ==
    IF memory.initial = 0 THEN Err(InvalidMemorySize(memory.initial))
    ELSE IF IsSome(memory.maximum) /\ memory.maximum.some < memory.initial
         THEN Err(InvalidMemorySize(memory.maximum.some))
    ELSE Ok

MemoryValidate(memory) ==
    IF memory.initial = 0 THEN Err(InvalidMemorySize(memory.initial))
    ELSE IF IsSome(memory.maximum) /\ memory.maximum.some < memory.initial
         THEN Err(InvalidMemorySize(memory.maximum.some))
    ELSE IF memory.shared /\ memory.memory_type # "Shared" THEN Err(InvalidSharedMemory)
    ELSE Ok

\* validate that accepts every Compound, the empty one included.
ExceptionTypeValidateCompoundUnchecked(exception_type) ==
    CASE exception_type.kind = "Basic" ->
             IF exception_type.of \in {"I32", "I64", "F32", "F64"}
             THEN Ok ELSE Err(InvalidExceptionType)
      [] exception_type.kind = "Reference" -> Ok
      [] exception_type.kind = "Compound" -> Ok

ExceptionTypeValidate(exception_type) ==
    CASE exception_type.kind = "Basic" ->
             IF exception_type.of \in {"I32", "I64", "F32", "F64"}
             THEN Ok ELSE Err(InvalidExceptionType)
      [] exception_type.kind = "Reference" -> Ok
      [] exception_type.kind = "Compound" ->
             IF Len(exception_type.of) = 0 THEN Err(EmptyExceptionType) ELSE Ok

ExceptionHandlerValidate(handler) ==
    LET t == ExceptionTypeValidate(handler.exception_type) IN
    IF ~t.ok THEN t
    ELSE IF \E k \in 1..Len(handler.handler_instructions) :
                handler.handler_instructions[k].op = "Throw"
         THEN Err(InvalidInstructionInHandler)
    ELSE Ok

(***************************************************************************)
(* WebAssembly2Table, WebAssembly2Global.                                  *)
(***************************************************************************)
\* WebAssembly2Table::new; data is kept by its length.
TableNew(index, element_type, initial, maximum) ==
    [index |-> index, element_type |-> element_type, initial |-> initial,
     maximum |-> maximum, data_len |-> initial, shared |-> FALSE]

TableValidate(table) ==
    IF table.initial = 0 THEN Err(InvalidTableSize(table.initial))
    ELSE IF IsSome(table.maximum) /\ table.maximum.some < table.initial
         THEN Err(InvalidTableSize(table.maximum.some))
    ELSE Ok

\* Value::get_type: the ValueType of the variant that holds the value.
GetType(value) == value.type

GlobalNew(index, value_type, mutable, init_value) ==
    [index |-> index, value_type |-> value_type, mutable |-> mutable,
     init_value |-> init_value,
     supports_reference_types |-> (value_type \in {"FuncRef", "ExternRef"})]

GlobalValidate(global) ==
    IF GetType(global.init_value) # global.value_type
    THEN Err(TypeMismatch(global.value_type, GetType(global.init_value)))
    ELSE Ok

(***************************************************************************)
(* WebAssembly2Module.                                                     *)
(***************************************************************************)
\* WebAssembly2Module::new with the id ModuleId::new returned.
ModuleNew(id) ==
    [id |-> id, features |-> <<>>, functions |-> <<>>, memories |-> <<>>,
     tables |-> <<>>, globals |-> <<>>, exception_handlers |-> <<>>]

SeqContains(s, x) == \E k \in 1..Len(s) : s[k] = x

SupportsFeature(m, feature) == SeqContains(m.features, feature)

EnableFeatureOn(m, feature) ==
    IF ~SeqContains(m.features, feature)
    THEN [m EXCEPT !.features = Append(@, feature)]
    ELSE m

\* validate_feature_compatibility with the dependency of TailCallOptimization
\* looked up under the wrong feature.
ValidateFeatureCompatibilityWrongDependency(m) ==
    (IF SupportsFeature(m, "TailCallOptimization") /\ ~SupportsFeature(m, "ReferenceTypes")
     THEN <<FeatureDependencyError("TailCallOptimization", "MultiValue")>> ELSE <<>>)
    \o
    (IF SupportsFeature(m, "ExceptionHandling") /\ ~SupportsFeature(m, "ReferenceTypes")
     THEN <<FeatureDependencyError("ExceptionHandling", "ReferenceTypes")>> ELSE <<>>)

\* The errors validate_feature_compatibility pushes, in order.
ValidateFeatureCompatibility(m) ==
    (IF SupportsFeature(m, "TailCallOptimization") /\ ~SupportsFeature(m, "MultiValue")
     THEN <<FeatureDependencyError("TailCallOptimization", "MultiValue")>> ELSE <<>>)
    \o
    (IF SupportsFeature(m, "ExceptionHandling") /\ ~SupportsFeature(m, "ReferenceTypes")
     THEN <<FeatureDependencyError("ExceptionHandling", "ReferenceTypes")>> ELSE <<>>)

\* `if let Err(e) = r { errors.push(e) }` over a sequence of validate() results.
RECURSIVE PushErrors(_)
PushErrors(rs) ==
    IF rs = <<>> THEN <<>>
    ELSE (IF Head(rs).ok THEN <<>> ELSE <<Head(rs).err>>) \o PushErrors(Tail(rs))

ModuleValidate(m) ==
    LET errors ==
            ValidateFeatureCompatibility(m)
            \o PushErrors([k \in 1..Len(m.functions) |-> FunctionValidate(m.functions[k])])
            \o PushErrors([k \in 1..Len(m.memories) |-> MemoryValidate(m.memories[k])])
            \o PushErrors([k \in 1..Len(m.exception_handlers) |->
                               ExceptionHandlerValidate(m.exception_handlers[k])])
    IN [is_valid |-> (errors = <<>>), errors |-> errors]

(***************************************************************************)
(* PerformanceStats; durations are in microseconds.                        *)
(***************************************************************************)
PerformanceStatsNew ==
    [total_execution_time |-> 0, execution_count |-> 0, average_execution_time |-> 0,
     max_execution_time |-> 0, min_execution_time |-> DurationMax]

\* record_execution that assigns 1 to the counter where it should add 1.
RecordExecutionCountAssigned(stats, execution_time) ==
    LET total == stats.total_execution_time + execution_time
        count == 1
    IN [total_execution_time |-> total,
        execution_count |-> count,
        average_execution_time |-> ((total \div MicrosPerMilli) \div count) * MicrosPerMilli,
        max_execution_time |-> IF execution_time > stats.max_execution_time
                               THEN execution_time ELSE stats.max_execution_time,
        min_execution_time |-> IF execution_time < stats.min_execution_time
                               THEN execution_time ELSE stats.min_execution_time]

RecordExecution(stats, execution_time) ==
    LET total == stats.total_execution_time + execution_time
        count == stats.execution_count + 1
    IN [total_execution_time |-> total,
        execution_count |-> count,
        average_execution_time |-> ((total \div MicrosPerMilli) \div count) * MicrosPerMilli,
        max_execution_time |-> IF execution_time > stats.max_execution_time
                               THEN execution_time ELSE stats.max_execution_time,
        min_execution_time |-> IF execution_time < stats.min_execution_time
                               THEN execution_time ELSE stats.min_execution_time]

(***************************************************************************)
(* WebAssembly2Runtime.                                                    *)
(***************************************************************************)
ExecutionEnvironmentNew(module_id, memory_size) ==
    [module_id |-> module_id, memory_size |-> memory_size]

\* HashMap::insert: the entry for key k is added or replaced.
Insert(map, k, v) == [x \in DOMAIN map \cup {k} |-> IF x = k THEN v ELSE map[x]]

\* What a runtime call hands back: Ok(ModuleId) from load_module, Ok(Vec<Value>)
\* from execute_function, Err(WebAssembly2Error), or a panic that unwinds.
NoError == [kind |-> "none"]

LoadOk(module_id) ==
    [op |-> "load_module", outcome |-> "Ok", module_id |-> module_id, values |-> <<>>,
     error |-> NoError]

ExecuteOk(values) ==
    [op |-> "execute_function", outcome |-> "Ok", module_id |-> 0, values |-> values,
     error |-> NoError]

CallErr(op, error) ==
    [op |-> op, outcome |-> "Err", module_id |-> 0, values |-> <<>>, error |-> error]

CallPanic(op) ==
    [op |-> op, outcome |-> "Panic", module_id |-> 0, values |-> <<>>, error |-> NoError]

NoCall ==
    [op |-> "none", outcome |-> "none", module_id |-> 0, values |-> <<>>, error |-> NoError]

\* No call of execute_function_internal has been made.
NoFrame ==
    [status |-> "none", function_index |-> 0, body |-> <<>>, pc |-> 0, stack |-> <<>>,
     depth |-> 0]

\* i32 `a + b`: whether the sum leaves i32, and the sum as two's complement
\* wraps it; written without forming an integer outside i32.
AddOverflows(a, b) ==
    \/ b > 0 /\ a > I32Max - b
    \/ b < 0 /\ a < I32Min - b

WrappingAdd(a, b) ==
    IF b > 0 /\ a > I32Max - b THEN I32Min + ((a - (I32Max - b)) - 1)
    ELSE IF b < 0 /\ a < I32Min - b THEN I32Max - (((I32Min - b) - a) - 1)
    ELSE a + b

\* An operand stack kept from one call to the next: it starts as the previous call
\* left it.
StaleStack ==
    IF result.op = "execute_function" /\ result.outcome = "Ok" THEN result.values ELSE <<>>

\* `let mut stack: Vec<Value> = Vec::new();`
FreshStack == <<>>

\* The instruction loop with Return handled by the catch-all arm: execution goes
\* on after it.
RECURSIVE RunFromReturnIgnored(_, _, _)
RunFromReturnIgnored(body, i, stack) ==
    IF i > Len(body) THEN [panic |-> FALSE, stack |-> stack]
    ELSE LET instruction == body[i] IN
         CASE instruction.op = "I32Const" ->
                  RunFromReturnIgnored(body, i + 1, Append(stack, I32(instruction.value)))
           [] instruction.op = "I32Add" ->
                  IF Len(stack) >= 2
                  THEN LET b == stack[Len(stack)].val
                           a == stack[Len(stack) - 1].val
                           rest == SubSeq(stack, 1, Len(stack) - 2)
                       IN IF AddOverflows(a, b) /\ overflow_checks
                          THEN [panic |-> TRUE, stack |-> <<>>]
                          ELSE RunFromReturnIgnored(body, i + 1,
                                                    Append(rest, I32(WrappingAdd(a, b))))
                  ELSE RunFromReturnIgnored(body, i + 1, <<>>)
           [] OTHER -> RunFromReturnIgnored(body, i + 1, stack)

\* The instruction loop of execute_function_internal from instruction i on:
\* the operand stack when the loop ends, or a panic.
RECURSIVE RunFrom(_, _, _)
RunFrom(body, i, stack) ==
    IF i > Len(body) THEN [panic |-> FALSE, stack |-> stack]
    ELSE LET instruction == body[i] IN
         CASE instruction.op = "I32Const" ->
                  RunFrom(body, i + 1, Append(stack, I32(instruction.value)))
           [] instruction.op = "I32Add" ->
                  \* (stack.pop(), stack.pop()) pops up to two values whether or not
                  \* the pattern matches; only I32 values are ever pushed.
                  IF Len(stack) >= 2
                  THEN LET b == stack[Len(stack)].val
                           a == stack[Len(stack) - 1].val
                           rest == SubSeq(stack, 1, Len(stack) - 2)
                       IN IF AddOverflows(a, b) /\ overflow_checks
                          THEN [panic |-> TRUE, stack |-> <<>>]
                          ELSE RunFrom(body, i + 1, Append(rest, I32(WrappingAdd(a, b))))
                  ELSE RunFrom(body, i + 1, <<>>)
           [] instruction.op = "Return" -> [panic |-> FALSE, stack |-> stack]
           [] OTHER -> RunFrom(body, i + 1, stack)

\* execute_function_internal with the args pushed onto the operand stack before
\* the loop.
ExecuteFunctionInternalArgsPushed(module_id, function, args) ==
    IF module_id \notin DOMAIN execution_environments
    THEN CallErr("execute_function", FeatureDependencyError("ExecutionEnvironment", "ModuleId"))
    ELSE LET run == RunFrom(function.body, 1, args) IN
         IF run.panic THEN CallPanic("execute_function")
         ELSE ExecuteOk(IF Len(run.stack) > 0 THEN <<run.stack[Len(run.stack)]>>
                        ELSE <<I32(0)>>)

\* execute_function_internal: Ok(vec![stack.pop().unwrap_or(Value::I32(0))]).
ExecuteFunctionInternal(module_id, function, args) ==
    IF module_id \notin DOMAIN execution_environments
    THEN CallErr("execute_function", FeatureDependencyError("ExecutionEnvironment", "ModuleId"))
    ELSE LET run == RunFrom(function.body, 1, FreshStack) IN
         IF run.panic THEN CallPanic("execute_function")
         ELSE ExecuteOk(IF Len(run.stack) > 0 THEN <<run.stack[Len(run.stack)]>>
                        ELSE <<I32(0)>>)

\* load_module that stores the module and forgets its execution environment.
LoadModuleNoEnvironment(m) ==
    /\ IF ~ModuleValidate(m).is_valid
       THEN /\ result' = CallErr("load_module", FeatureDependencyError("Module", "Validation"))
            /\ UNCHANGED <<modules, execution_environments>>
       ELSE /\ modules' = Insert(modules, m.id, m)
            /\ UNCHANGED execution_environments
            /\ result' = LoadOk(m.id)
    /\ UNCHANGED <<performance_stats, overflow_checks, observed, frame, builderVars>>

\* load_module that inserts into both registries before it validates.
LoadModuleInsertFirst(m) ==
    /\ modules' = Insert(modules, m.id, m)
    /\ execution_environments' =
           Insert(execution_environments, m.id, ExecutionEnvironmentNew(m.id, EnvMemorySize))
    /\ result' = IF ~ModuleValidate(m).is_valid
                 THEN CallErr("load_module", FeatureDependencyError("Module", "Validation"))
                 ELSE LoadOk(m.id)
    /\ UNCHANGED <<performance_stats, overflow_checks, observed, frame, builderVars>>

\* load_module on a registry of one slot: the module loaded replaces whatever the
\* registries held.
LoadModuleSingleSlot(m) ==
    /\ IF ~ModuleValidate(m).is_valid
       THEN /\ result' = CallErr("load_module", FeatureDependencyError("Module", "Validation"))
            /\ UNCHANGED <<modules, execution_environments>>
       ELSE /\ modules' = Insert(<<>>, m.id, m)
            /\ execution_environments' =
                   Insert(<<>>, m.id, ExecutionEnvironmentNew(m.id, EnvMemorySize))
            /\ result' = LoadOk(m.id)
    /\ UNCHANGED <<performance_stats, overflow_checks, observed, frame, builderVars>>

\* load_module that inserts with entry().or_insert: a module already registered
\* under the id stays, and so does its execution environment.
LoadModuleKeepsExisting(m) ==
    /\ IF ~ModuleValidate(m).is_valid
       THEN /\ result' = CallErr("load_module", FeatureDependencyError("Module", "Validation"))
            /\ UNCHANGED <<modules, execution_environments>>
       ELSE /\ IF m.id \in DOMAIN modules
               THEN UNCHANGED <<modules, execution_environments>>
               ELSE /\ modules' = Insert(modules, m.id, m)
                    /\ execution_environments' =
                           Insert(execution_environments, m.id,
                                  ExecutionEnvironmentNew(m.id, EnvMemorySize))
            /\ result' = LoadOk(m.id)
    /\ UNCHANGED <<performance_stats, overflow_checks, observed, frame, builderVars>>

\* load_module(module)
LoadModule(m) ==
    /\ IF ~ModuleValidate(m).is_valid
       THEN /\ result' = CallErr("load_module", FeatureDependencyError("Module", "Validation"))
            /\ UNCHANGED <<modules, execution_environments>>
       ELSE /\ modules' = Insert(modules, m.id, m)
            /\ execution_environments' =
                   Insert(execution_environments, m.id,
                          ExecutionEnvironmentNew(m.id, EnvMemorySize))
            /\ result' = LoadOk(m.id)
    /\ UNCHANGED <<performance_stats, overflow_checks, observed, frame, builderVars>>

\* The call as the caller may keep it for a later comparison.
Observation(module_id, function_index, args, function, r) ==
    [module_id |-> module_id, function_index |-> function_index, args |-> args,
     function |-> function, outcome |-> r.outcome, values |-> r.values]

\* execute_function that indexes module.functions[function_index] directly: an
\* index out of range panics.
ExecuteFunctionIndexing(module_id, function_index, args, execution_time, keep) ==
    /\ IF module_id \notin DOMAIN modules
       THEN /\ result' = CallErr("execute_function",
                                 FeatureDependencyError("Module", "ModuleId"))
            /\ UNCHANGED <<performance_stats, observed>>
       ELSE IF function_index >= Len(modules[module_id].functions)
       THEN /\ result' = CallPanic("execute_function")
            /\ UNCHANGED <<performance_stats, observed>>
       ELSE LET function == modules[module_id].functions[function_index + 1]
                r == ExecuteFunctionInternal(module_id, function, args)
            IN /\ result' = r
               /\ IF r.outcome = "Ok"
                  THEN /\ performance_stats.execution_count < MaxExec
                       /\ performance_stats' =
                              RecordExecution(performance_stats, execution_time)
                  ELSE UNCHANGED performance_stats
               /\ IF keep /\ ~IsSome(observed)
                  THEN observed' =
                           Some(Observation(module_id, function_index, args, function, r))
                  ELSE UNCHANGED observed
    /\ UNCHANGED <<modules, execution_environments, overflow_checks, frame, builderVars>>

\* execute_function that takes the module out of the registry with remove() to
\* run it and does not put it back.
ExecuteFunctionRemovesModule(module_id, function_index, args, execution_time, keep) ==
    /\ IF module_id \notin DOMAIN modules
       THEN /\ result' = CallErr("execute_function",
                                 FeatureDependencyError("Module", "ModuleId"))
            /\ UNCHANGED <<modules, execution_environments, performance_stats, observed>>
       ELSE /\ modules' = [id \in DOMAIN modules \ {module_id} |-> modules[id]]
            /\ execution_environments' =
                   [id \in DOMAIN modules \ {module_id} |-> execution_environments[id]]
            /\ IF function_index >= Len(modules[module_id].functions)
               THEN /\ result' = CallErr("execute_function",
                                         FeatureDependencyError("Function", "FunctionIndex"))
                    /\ UNCHANGED <<performance_stats, observed>>
               ELSE LET function == modules[module_id].functions[function_index + 1]
                        r == ExecuteFunctionInternal(module_id, function, args)
                    IN /\ result' = r
                       /\ IF r.outcome = "Ok"
                          THEN /\ performance_stats.execution_count < MaxExec
                               /\ performance_stats' =
                                      RecordExecution(performance_stats, execution_time)
                          ELSE UNCHANGED performance_stats
                       /\ UNCHANGED observed
    /\ UNCHANGED <<overflow_checks, frame, builderVars>>

\* execute_function(module_id, function_index, args), taking execution_time on the
\* wall clock; keep: the caller keeps this call's output.
ExecuteFunction(module_id, function_index, args, execution_time, keep) ==
    /\ IF module_id \notin DOMAIN modules
       THEN /\ result' = CallErr("execute_function",
                                 FeatureDependencyError("Module", "ModuleId"))
            /\ UNCHANGED <<performance_stats, observed>>
       ELSE IF function_index >= Len(modules[module_id].functions)
       THEN /\ result' = CallErr("execute_function",
                                 FeatureDependencyError("Function", "FunctionIndex"))
            /\ UNCHANGED <<performance_stats, observed>>
       ELSE LET function == modules[module_id].functions[function_index + 1]
                r == ExecuteFunctionInternal(module_id, function, args)
            IN /\ result' = r
               /\ IF r.outcome = "Ok"
                  THEN /\ performance_stats.execution_count < MaxExec
                       /\ performance_stats' =
                              RecordExecution(performance_stats, execution_time)
                  ELSE UNCHANGED performance_stats
               /\ IF keep /\ ~IsSome(observed)
                  THEN observed' =
                           Some(Observation(module_id, function_index, args, function, r))
                  ELSE UNCHANGED observed
    /\ UNCHANGED <<modules, execution_environments, overflow_checks, frame, builderVars>>

(***************************************************************************)
(* Inputs.                                                                 *)
(***************************************************************************)
ModuleIds == 1..MaxModules

\* A module as a client leaves it after Module::new, enable_feature calls and
\* pushes onto the public vectors.
ModuleWith(id, features, functions, memories, handlers) ==
    [id |-> id, features |-> features, functions |-> functions, memories |-> memories,
     tables |-> <<>>, globals |-> <<>>, exception_handlers |-> handlers]

\* add(a: I32, b: I32) -> I32 as the examples write it, the constants standing in
\* for the parameters.
AddReturn ==
    Function(0, <<"I32", "I32">>, <<"I32">>, <<I32Const(3), I32Const(4), I32Add, Return>>, <<>>)

AddFallthrough ==
    Function(0, <<"I32", "I32">>, <<"I32">>, <<I32Const(3), I32Const(4), I32Add>>, <<>>)

EarlyReturn ==
    Function(1, <<>>, <<>>, <<I32Const(3), Return, I32Const(4), I32Const(4), I32Add>>, <<>>)

CopyOutOfRange ==
    Function(0, <<>>, <<>>, <<MemoryCopy(0, EnvMemorySize - 8, 16)>>, <<>>)

AddOverflow ==
    Function(1, <<>>, <<"I32">>, <<I32Const(I32Max), I32Const(1), I32Add>>, <<>>)

\* an instruction the interpreter has no arm for, between two constants
SkipNoOps ==
    Function(2, <<>>, <<"I32">>, <<I32Const(3), MemoryCopy(0, 8, 4), I32Const(4), I32Add>>, <<>>)

OnePage == MemoryNew(0, 1, None, "Standard")

ZeroPages == MemoryNew(0, 0, None, "Standard")

\* features, functions, memories of the modules handed to load_module
RuntimeShapes ==
    { <<<<>>, <<>>, <<>>>>,
      <<<<>>, <<AddReturn>>, <<>>>>,
      <<<<>>, <<AddFallthrough, EarlyReturn>>, <<>>>>,
      <<<<"BulkMemoryOperations">>, <<CopyOutOfRange, AddOverflow, SkipNoOps>>, <<OnePage>>>>,
      <<<<"TailCallOptimization">>, <<AddFallthrough>>, <<>>>>,
      <<<<>>, <<>>, <<ZeroPages>>>> }

ModuleInputs ==
    { ModuleWith(id, shape[1], shape[2], shape[3], <<>>) :
          id \in ModuleIds, shape \in RuntimeShapes }

ArgInputs == { <<>>, <<I32(3), I32(4)>> }

FunctionIndexInputs == {0, 1, 2}

\* elapsed wall-clock time of one call, microseconds
DurationInputs == {400, 1700}

(***************************************************************************)
(* The runtime.                                                            *)
(***************************************************************************)
Init ==
    /\ modules = <<>>
    /\ execution_environments = <<>>
    /\ performance_stats = PerformanceStatsNew
    /\ overflow_checks \in BOOLEAN
    /\ result = NoCall
    /\ observed = None
    /\ frame = NoFrame
    /\ module = ModuleNew(1)
    /\ validation = None

Next ==
    \/ \E m \in ModuleInputs : LoadModule(m)
    \/ \E module_id \in ModuleIds, function_index \in FunctionIndexInputs,
          args \in ArgInputs, execution_time \in DurationInputs :
           ExecuteFunction(module_id, function_index, args, execution_time, FALSE)

Spec == Init /\ [][Next]_vars

\* The runtime with a caller that may keep the output of one call; every call
\* takes the same time on the clock.
ObservedDurationInputs == {1700}

NextObserved ==
    \/ \E m \in ModuleInputs : LoadModule(m)
    \/ \E module_id \in ModuleIds, function_index \in FunctionIndexInputs,
          args \in ArgInputs, execution_time \in ObservedDurationInputs,
          keep \in (IF IsSome(observed) THEN {FALSE} ELSE BOOLEAN) :
           ExecuteFunction(module_id, function_index, args, execution_time, keep)

SpecObserved == Init /\ [][NextObserved]_vars

(***************************************************************************)
(* execute_function one loop iteration at a time.                          *)
(***************************************************************************)
\* the tail-call function of the performance example: a constant, then
\* ReturnCall of the function itself
TailSelf == Function(0, <<>>, <<>>, <<I32Const(1), ReturnCall(0)>>, <<>>)

TailIndirectSelf == Function(1, <<>>, <<>>, <<I32Const(2), ReturnCallIndirect(1)>>, <<>>)

\* the try block throws the tag its catch handles before it pushes 1; the catch
\* block pushes 5
CatchFive ==
    Function(0, <<>>, <<>>,
             <<TryCatch(7, <<Throw(7), I32Const(1)>>, <<I32Const(5)>>)>>, <<ExceptionLabel(7)>>)

CatchAllSix ==
    Function(1, <<>>, <<>>,
             <<TryCatchAll(7, <<Throw(9), I32Const(1)>>, <<I32Const(6)>>)>>,
             <<ExceptionLabel(9)>>)

StepShapes ==
    { <<<<"MultiValue", "TailCallOptimization">>, <<TailSelf, TailIndirectSelf>>, <<>>>>,
      <<<<"ReferenceTypes", "ExceptionHandling">>, <<CatchFive, CatchAllSix>>, <<>>>>,
      <<<<>>, <<AddFallthrough, EarlyReturn>>, <<>>>> }

StepModuleInputs ==
    { ModuleWith(id, shape[1], shape[2], shape[3], <<>>) :
          id \in ModuleIds, shape \in StepShapes }

StepFunctionIndexInputs == {0, 1}

\* load_module between two execute_function calls: both take &mut self, so a
\* load never runs while a call is in progress.
LoadBetweenCalls(m) ==
    /\ frame.status # "running"
    /\ LoadModule(m)

\* execute_function up to the instruction loop: the lookups of the module, the
\* function and the execution environment, and the new operand stack.
Begin(module_id, function_index) ==
    /\ frame.status # "running"
    /\ performance_stats.execution_count < MaxExec
    /\ IF module_id \notin DOMAIN modules
       THEN /\ result' = CallErr("execute_function",
                                 FeatureDependencyError("Module", "ModuleId"))
            /\ UNCHANGED frame
       ELSE IF function_index >= Len(modules[module_id].functions)
       THEN /\ result' = CallErr("execute_function",
                                 FeatureDependencyError("Function", "FunctionIndex"))
            /\ UNCHANGED frame
       ELSE IF module_id \notin DOMAIN execution_environments
       THEN /\ result' = CallErr("execute_function",
                                 FeatureDependencyError("ExecutionEnvironment", "ModuleId"))
            /\ UNCHANGED frame
       ELSE /\ frame' = [status |-> "running", function_index |-> function_index,
                         body |-> modules[module_id].functions[function_index + 1].body,
                         pc |-> 1, stack |-> FreshStack, depth |-> 1]
            /\ UNCHANGED result
    /\ UNCHANGED <<modules, execution_environments, performance_stats, overflow_checks,
                   observed, builderVars>>

\* The loop is over: past the last instruction, or at a Return (`break`).
AtEnd ==
    IF frame.pc \in 1..Len(frame.body) THEN frame.body[frame.pc].op = "Return" ELSE TRUE

\* One iteration of the loop with ReturnCall of the running function done as a
\* jump: the body starts again on an empty operand stack.
StepTailCallJumps ==
    /\ frame.status = "running"
    /\ ~AtEnd
    /\ LET instruction == frame.body[frame.pc] IN
       CASE instruction.op = "I32Const" ->
                /\ frame' = [frame EXCEPT !.pc = @ + 1,
                                          !.stack = Append(@, I32(instruction.value))]
                /\ UNCHANGED result
         [] instruction.op = "I32Add" ->
                /\ frame' = [frame EXCEPT !.pc = @ + 1, !.stack = <<>>]
                /\ UNCHANGED result
         [] instruction.op = "ReturnCall" /\ instruction.index = frame.function_index ->
                /\ frame' = [frame EXCEPT !.pc = 1, !.stack = <<>>]
                /\ UNCHANGED result
         [] OTHER ->
                /\ frame' = [frame EXCEPT !.pc = @ + 1]
                /\ UNCHANGED result
    /\ UNCHANGED <<modules, execution_environments, performance_stats, overflow_checks,
                   observed, builderVars>>

\* One iteration of `for instruction in &function.body` on an instruction other
\* than Return.
Step ==
    /\ frame.status = "running"
    /\ ~AtEnd
    /\ LET instruction == frame.body[frame.pc]
           stack == frame.stack
       IN
       CASE instruction.op = "I32Const" ->
                /\ frame' = [frame EXCEPT !.pc = @ + 1,
                                          !.stack = Append(@, I32(instruction.value))]
                /\ UNCHANGED result
         [] instruction.op = "I32Add" ->
                IF Len(stack) >= 2
                THEN LET b == stack[Len(stack)].val
                         a == stack[Len(stack) - 1].val
                         rest == SubSeq(stack, 1, Len(stack) - 2)
                     IN IF AddOverflows(a, b) /\ overflow_checks
                        THEN /\ frame' = [frame EXCEPT !.status = "done"]
                             /\ result' = CallPanic("execute_function")
                        ELSE /\ frame' = [frame EXCEPT
                                              !.pc = @ + 1,
                                              !.stack = Append(rest, I32(WrappingAdd(a, b)))]
                             /\ UNCHANGED result
                ELSE /\ frame' = [frame EXCEPT !.pc = @ + 1, !.stack = <<>>]
                     /\ UNCHANGED result
         [] OTHER ->
                /\ frame' = [frame EXCEPT !.pc = @ + 1]
                /\ UNCHANGED result
    /\ UNCHANGED <<modules, execution_environments, performance_stats, overflow_checks,
                   observed, builderVars>>

\* The loop ends, at Return or past the last instruction: the result vector is
\* built and execute_function records the call.
Finish(execution_time) ==
    /\ frame.status = "running"
    /\ AtEnd
    /\ result' = ExecuteOk(IF Len(frame.stack) > 0 THEN <<frame.stack[Len(frame.stack)]>>
                           ELSE <<I32(0)>>)
    /\ performance_stats' = RecordExecution(performance_stats, execution_time)
    /\ frame' = [frame EXCEPT !.status = "done"]
    /\ UNCHANGED <<modules, execution_environments, overflow_checks, observed, builderVars>>

NextStep ==
    \/ \E m \in StepModuleInputs : LoadBetweenCalls(m)
    \/ \E module_id \in ModuleIds, function_index \in StepFunctionIndexInputs :
           Begin(module_id, function_index)
    \/ Step
    \/ \E execution_time \in ObservedDurationInputs : Finish(execution_time)

\* the loop is not suspended: a call in progress takes its next iteration and
\* returns when the loop has ended
SpecStep ==
    /\ Init
    /\ [][NextStep]_vars
    /\ WF_vars(Step)
    /\ WF_vars(\E execution_time \in ObservedDurationInputs : Finish(execution_time))

(***************************************************************************)
(* The builder API and Module::validate on one module under construction.  *)
(***************************************************************************)
FeatureInputs == {"TailCallOptimization", "MultiValue", "ExceptionHandling", "ReferenceTypes"}

ResultInputs == { <<>>, <<"I32">>, <<"I32", "I32">> }

\* tag 7 is the tag a function may declare; tag 9 is declared nowhere
BodyInputs ==
    { <<>>,
      <<I32Const(3), I32Const(4), I32Add, Return>>,
      <<I32Const(1), Return>>,
      <<MemoryCopy(0, 8, 4)>>,
      <<ReturnCall(0)>>,
      <<V128Add>>,
      <<Throw(7)>>,
      <<I32Const(3), Throw(9)>>,
      <<Return, Throw(9)>>,
      <<TryCatch(7, <<Throw(9)>>, <<>>)>>,
      <<TryCatch(7, <<>>, <<Throw(9)>>)>>,
      <<TryCatchAll(7, <<Throw(9)>>, <<Throw(9)>>)>> }

LabelInputs == { <<>>, <<ExceptionLabel(7)>> }

FunctionInputs ==
    { Function(0, <<>>, results, body, labels) :
          results \in ResultInputs, body \in BodyInputs, labels \in LabelInputs }

FunctionVecInputs == UNION { [1..n -> FunctionInputs] : n \in 0..MaxFunctions }

\* memories as WebAssembly2Memory::new returns them
NewMemoryInputs ==
    { OnePage, ZeroPages,
      MemoryNew(0, 2, Some(1), "Standard"),
      MemoryNew(0, 1, Some(1), "Standard"),
      MemoryNew(0, 1, Some(2), "Shared"),
      MemoryNew(0, 1, None, "Memory64") }

\* memories whose public field `shared` was assigned after new
SharedAssignedInputs ==
    { [MemoryNew(0, 1, None, "Standard") EXCEPT !.shared = TRUE],
      [MemoryNew(0, 1, Some(2), "Memory64") EXCEPT !.shared = TRUE],
      [MemoryNew(0, 0, None, "Standard") EXCEPT !.shared = TRUE] }

MemoryVecInputs == { <<memory>> : memory \in NewMemoryInputs \cup SharedAssignedInputs }

HandlerVecInputs ==
    { <<[tag |-> 7, exception_type |-> [kind |-> "Basic", of |-> "I32"],
         handler_instructions |-> <<I32Const(3), Return>>]>>,
      <<[tag |-> 7, exception_type |-> [kind |-> "Compound", of |-> <<>>],
         handler_instructions |-> <<>>]>>,
      <<[tag |-> 7, exception_type |-> [kind |-> "Basic", of |-> "I32"],
         handler_instructions |-> <<Throw(9)>>]>>,
      <<[tag |-> 7, exception_type |-> [kind |-> "Basic", of |-> "I32"],
         handler_instructions |-> <<I32Const(3), Throw(7)>>]>>,
      <<[tag |-> 7, exception_type |-> [kind |-> "Basic", of |-> "V128"],
         handler_instructions |-> <<>>]>>,
      <<[tag |-> 7, exception_type |-> [kind |-> "Basic", of |-> "FuncRef"],
         handler_instructions |-> <<>>]>>,
      <<[tag |-> 7, exception_type |-> [kind |-> "Compound", of |-> <<"I32", "V128">>],
         handler_instructions |-> <<>>]>>,
      <<[tag |-> 7, exception_type |-> [kind |-> "Reference", of |-> "FuncRef"],
         handler_instructions |-> <<>>]>> }

TableVecInputs ==
    { <<TableNew(0, "FuncRef", 1, None)>>,
      <<TableNew(0, "FuncRef", 0, None)>>,
      <<TableNew(0, "FuncRef", 2, Some(1))>> }

GlobalVecInputs ==
    { <<GlobalNew(0, "I32", FALSE, I32(0))>>,
      <<GlobalNew(0, "I64", FALSE, I32(0))>> }

\* functions, memories, exception_handlers, tables, globals pushed onto a new
\* module
BuilderShapes ==
    { <<fs, <<>>, <<>>, <<>>, <<>>>> : fs \in FunctionVecInputs }
    \cup { <<<<>>, ms, <<>>, <<>>, <<>>>> : ms \in MemoryVecInputs }
    \cup { <<<<>>, <<>>, hs, <<>>, <<>>>> : hs \in HandlerVecInputs }
    \cup { <<<<>>, <<>>, <<>>, ts, <<>>>> : ts \in TableVecInputs }
    \cup { <<<<>>, <<>>, <<>>, <<>>, gs>> : gs \in GlobalVecInputs }

InitValidate ==
    /\ modules = <<>>
    /\ execution_environments = <<>>
    /\ performance_stats = PerformanceStatsNew
    /\ overflow_checks = FALSE
    /\ result = NoCall
    /\ observed = None
    /\ frame = NoFrame
    /\ \E shape \in BuilderShapes :
           module = [ModuleWith(1, <<>>, shape[1], shape[2], shape[3])
                         EXCEPT !.tables = shape[4], !.globals = shape[5]]
    /\ validation = None

\* load_module takes the module by value: once handed over, the client no longer
\* has it to change, validate or load again.
Moved == result.op = "load_module"

\* module.enable_feature(feature)
EnableFeature(feature) ==
    /\ ~Moved
    /\ module' = EnableFeatureOn(module, feature)
    /\ validation' = None
    /\ UNCHANGED runtimeVars

\* validate with its errors vector kept from one call to the next: a second call
\* appends to what the first one reported.
ValidateAccumulating ==
    /\ ~Moved
    /\ validation' =
           Some(LET errors == (IF IsSome(validation) THEN validation.some.errors ELSE <<>>)
                                  \o ModuleValidate(module).errors
                IN [is_valid |-> (errors = <<>>), errors |-> errors])
    /\ UNCHANGED <<module, runtimeVars>>

\* module.validate()
Validate ==
    /\ ~Moved
    /\ validation' = Some(ModuleValidate(module))
    /\ UNCHANGED <<module, runtimeVars>>

\* runtime.load_module(module) on a new runtime
Load ==
    /\ ~Moved
    /\ LoadModule(module)

NextValidate ==
    \/ \E feature \in FeatureInputs : EnableFeature(feature)
    \/ Validate
    \/ Load

SpecValidate == InitValidate /\ [][NextValidate]_vars

(***************************************************************************)
(* Properties.                                                             *)
(***************************************************************************)
AddModule(id) == ModuleWith(id, <<>>, <<AddReturn>>, <<>>, <<>>)

\* C1: for a module whose one function add(a: I32, b: I32) -> I32 has the body
\* [I32Const(3), I32Const(4), I32Add, Return], load_module succeeds, and
\* execute_function(id, 0, [I32(3), I32(4)]) on the loaded module returns [I32(7)].
C1_AddRoundTrip ==
    [][\A id \in ModuleIds :
          /\ LoadModule(AddModule(id)) =>
                 result'.outcome = "Ok" /\ result'.module_id = id
          /\ \A execution_time \in DurationInputs :
                 ( /\ id \in DOMAIN modules
                   /\ modules[id] = AddModule(id)
                   /\ ExecuteFunction(id, 0, <<I32(3), I32(4)>>, execution_time, FALSE) )
                 => result'.outcome = "Ok" /\ result'.values = <<I32(7)>>]_vars

Enabled(m) == { m.features[k] : k \in 1..Len(m.features) }

Occurrences(s, x) == Cardinality({ k \in 1..Len(s) : s[k] = x })

DependencyPairs ==
    { <<"TailCallOptimization", "MultiValue">>, <<"ExceptionHandling", "ReferenceTypes">> }

\* C2: whatever enable_feature calls built the feature list, Module::validate
\* reports exactly one FeatureDependencyError{feature, required} for each violated
\* dependency pair, none for a satisfied pair and no other FeatureDependencyError,
\* and a module with a violated pair is not valid.
C2_FeatureDependencies ==
    IsSome(validation) =>
        LET v == validation.some
            violated == { p \in DependencyPairs :
                              p[1] \in Enabled(module) /\ p[2] \notin Enabled(module) }
        IN /\ \A p \in DependencyPairs :
                  Occurrences(v.errors, FeatureDependencyError(p[1], p[2]))
                      = IF p \in violated THEN 1 ELSE 0
           /\ Cardinality({ k \in 1..Len(v.errors) :
                                v.errors[k].kind = "FeatureDependencyError" })
                  = Cardinality(violated)
           /\ (violated # {} => ~v.is_valid)

\* TailCallOptimization enabled after another feature, MultiValue never: the
\* validation reports the dependency.
C2_Witness ==
    /\ IsSome(validation)
    /\ Len(module.features) >= 2
    /\ module.features[2] = "TailCallOptimization"
    /\ "MultiValue" \notin Enabled(module)
    /\ ~validation.some.is_valid
    /\ Occurrences(validation.some.errors,
                   FeatureDependencyError("TailCallOptimization", "MultiValue")) = 1

\* C3: the module registry and the execution-environment registry hold the same
\* module ids, each environment under the id of its module.
C3_OneEnvironmentPerModule ==
    /\ DOMAIN modules = DOMAIN execution_environments
    /\ \A id \in DOMAIN modules :
           modules[id].id = id /\ execution_environments[id].module_id = id

\* two modules loaded, then a function executed
C3_Witness ==
    /\ Cardinality(DOMAIN modules) = 2
    /\ result.op = "execute_function"
    /\ result.outcome = "Ok"

\* C4: load_module returns Ok exactly when Module::validate reports is_valid; for
\* an invalid module it returns one error and leaves the module registry, the
\* execution-environment registry and the performance stats as they were.
C4_LoadIffValid ==
    [][result'.op = "load_module" =>
          \A m \in ModuleInputs :
              LoadModule(m) =>
                  /\ (result'.outcome = "Ok") <=> ModuleValidate(m).is_valid
                  /\ ~ModuleValidate(m).is_valid =>
                         /\ result'.outcome = "Err"
                         /\ result'.error.kind = "FeatureDependencyError"
                         /\ UNCHANGED <<modules, execution_environments,
                                        performance_stats>>]_vars

\* a load refused on a runtime that already holds a module and has executed
C4_Witness ==
    /\ result.op = "load_module"
    /\ result.outcome = "Err"
    /\ DOMAIN modules # {}
    /\ performance_stats.execution_count > 0

\* C5: execute_function with a module id that is not loaded, or a function_index
\* at or beyond the module's function count, returns Err and does not panic.
C5_NotFoundIsErr ==
    [][(result'.op = "execute_function" /\ result'.outcome # "Err") =>
          \A module_id \in ModuleIds, function_index \in FunctionIndexInputs :
              ( \/ module_id \notin DOMAIN modules
                \/ function_index >= Len(modules[module_id].functions) )
              => \A args \in ArgInputs, execution_time \in DurationInputs :
                     ~ExecuteFunction(module_id, function_index, args, execution_time,
                                      FALSE)]_vars

\* an index one past the last function of a loaded module was refused
C5_Witness ==
    /\ result.op = "execute_function"
    /\ result.outcome = "Err"
    /\ result.error = FeatureDependencyError("Function", "FunctionIndex")
    /\ \E id \in DOMAIN modules : Len(modules[id].functions) > 0

\* C6: execute_function is deterministic: a call with the module id, function
\* index and args of a call made earlier on the same function returns what the
\* earlier call returned, whatever calls the runtime served in between.
C6_Deterministic ==
    [][(IsSome(observed) /\ result'.op = "execute_function") =>
          LET o == observed.some IN
          ( /\ o.module_id \in DOMAIN modules
            /\ o.function_index < Len(modules[o.module_id].functions)
            /\ modules[o.module_id].functions[o.function_index + 1] = o.function
            /\ \E execution_time \in ObservedDurationInputs :
                   ExecuteFunction(o.module_id, o.function_index, o.args,
                                   execution_time, FALSE) )
          => result'.outcome = o.outcome /\ result'.values = o.values]_vars

\* the third call returns what the kept call returned: both ran the function that
\* returns 3 of the one module loaded
C6_Witness ==
    /\ IsSome(observed)
    /\ observed.some.values = <<I32(3)>>
    /\ result = ExecuteOk(<<I32(3)>>)
    /\ DOMAIN modules = {observed.some.module_id}
    /\ performance_stats.execution_count = 3

\* C7: execution_count never decreases; a successful execute_function call
\* increases it by exactly 1 and load_module leaves it as it was.
C7_ExecutionCount ==
    [][/\ performance_stats'.execution_count >= performance_stats.execution_count
       /\ (result'.op = "execute_function" /\ result'.outcome = "Ok") =>
              performance_stats'.execution_count = performance_stats.execution_count + 1
       /\ result'.op = "load_module" =>
              performance_stats'.execution_count = performance_stats.execution_count]_vars

\* two successful calls are counted as 2
C7_Witness ==
    /\ performance_stats.execution_count = 2
    /\ result.op = "execute_function"
    /\ result.outcome = "Ok"

\* C8: every execute_function call, whether it returns Ok or Err, is recorded in
\* the performance stats: execution_count goes up by one.
C8_EveryCallRecorded ==
    [][result'.op = "execute_function" =>
          performance_stats'.execution_count = performance_stats.execution_count + 1]_vars

\* the bytes of the memory a module's bulk instructions address
MemoryLength(m) == IF Len(m.memories) > 0 THEN m.memories[1].data_len ELSE 0

\* the function reaches a MemoryCopy whose source or destination range ends
\* beyond the module's memory
ReachesCopyOutOfRange(m, function) ==
    \E k \in 1..Len(function.body) :
        /\ function.body[k].op = "MemoryCopy"
        /\ \A j \in 1..(k - 1) : function.body[j].op # "Return"
        /\ \/ function.body[k].src + function.body[k].size > MemoryLength(m)
           \/ function.body[k].dst + function.body[k].size > MemoryLength(m)

\* C9: executing a MemoryCopy{src, dst, size} whose source or destination range
\* exceeds the memory's byte length makes execute_function return an error, not Ok
\* and not a panic.
C9_CopyOutOfRangeTraps ==
    [][result'.op = "execute_function" =>
          \A module_id \in DOMAIN modules, function_index \in FunctionIndexInputs :
              ( /\ function_index < Len(modules[module_id].functions)
                /\ ReachesCopyOutOfRange(modules[module_id],
                                         modules[module_id].functions[function_index + 1])
                /\ \E args \in ArgInputs, execution_time \in DurationInputs :
                       ExecuteFunction(module_id, function_index, args, execution_time,
                                       FALSE) )
              => result'.outcome = "Err"]_vars

\* the tags of the Throw instructions of a body, those inside the blocks of a
\* TryCatch or TryCatchAll included
RECURSIVE ThrowTags(_)
ThrowTags(body) ==
    UNION { LET instruction == body[k] IN
            CASE instruction.op = "Throw" -> {instruction.tag}
              [] instruction.op = "TryCatch" ->
                     ThrowTags(instruction.try_instructions)
                         \cup ThrowTags(instruction.catch_instructions)
              [] instruction.op = "TryCatchAll" ->
                     ThrowTags(instruction.try_instructions)
                         \cup ThrowTags(instruction.catch_all_instructions)
              [] OTHER -> {}
            : k \in 1..Len(body) }

\* C10: a function whose body holds a Throw(tag), at any position and at any
\* depth, with tag not among its declared exception labels fails validation with
\* InvalidExceptionTag(tag).
C10_UndeclaredThrowRejected ==
    IsSome(validation) =>
        \A k \in 1..Len(module.functions) :
            \A tag \in ThrowTags(module.functions[k].body) :
                ~HasLabel(module.functions[k], tag) =>
                    /\ ~validation.some.is_valid
                    /\ SeqContains(validation.some.errors, InvalidExceptionTag(tag))

\* the operand-stack depth where control leaves a body of constants and additions:
\* at its first Return or off its end
RECURSIVE DepthAtExit(_, _, _)
DepthAtExit(body, i, depth) ==
    IF i > Len(body) \/ body[i].op = "Return" THEN depth
    ELSE DepthAtExit(body, i + 1,
                     CASE body[i].op = "I32Const" -> depth + 1
                       [] body[i].op = "I32Add" -> IF depth >= 2 THEN depth - 1 ELSE 0
                       [] OTHER -> depth)

\* at most one declared result and a body of I32Const, I32Add and Return only: no
\* other validation rule applies to the function
Arithmetic(function) ==
    /\ Len(function.results) <= 1
    /\ \A j \in 1..Len(function.body) :
           function.body[j].op \in {"I32Const", "I32Add", "Return"}

\* C11: function validation returns ReturnTypeMismatch exactly when, at a Return
\* or at fallthrough off the end of the body, the number of values on the operand
\* stack differs from the number of declared results: Module::validate reports
\* one ReturnTypeMismatch for each such function and for no other.
C11_ReturnTypeMismatchIffDepthDiffers ==
    ( /\ IsSome(validation)
      /\ \A k \in 1..Len(module.functions) : Arithmetic(module.functions[k]) )
    => Cardinality({ j \in 1..Len(validation.some.errors) :
                         validation.some.errors[j].kind = "ReturnTypeMismatch" })
           = Cardinality({ k \in 1..Len(module.functions) :
                               DepthAtExit(module.functions[k].body, 1, 0)
                                   # Len(module.functions[k].results) })

HasMultiResult(m) == \E k \in 1..Len(m.functions) : Len(m.functions[k].results) > 1

ReachedUndeclaredTags(function) ==
    { function.body[k].tag :
          k \in { j \in 1..Len(function.body) :
                      /\ function.body[j].op = "Throw"
                      /\ ~HasLabel(function, function.body[j].tag)
                      /\ \A i \in 1..(j - 1) : function.body[i].op # "Return" } }

\* C13: Module::validate does not stop at the first defect: every defect of every
\* function has its own entry in errors (a function of two results that throws an
\* undeclared tag contributes MultiValueNotSupported and InvalidExceptionTag), and
\* is_valid holds exactly when errors is empty.
C13_EveryDefectReported ==
    IsSome(validation) =>
        /\ validation.some.is_valid <=> (validation.some.errors = <<>>)
        /\ \A k \in 1..Len(module.functions) :
               LET function == module.functions[k] IN
               /\ Len(function.results) > 1 =>
                      SeqContains(validation.some.errors, MultiValueNotSupported)
               /\ \A tag \in ReachedUndeclaredTags(function) :
                      SeqContains(validation.some.errors, InvalidExceptionTag(tag))

HasInvalidTable(m) == \E k \in 1..Len(m.tables) : ~TableValidate(m.tables[k]).ok

\* C14: Module::validate delegates to every table's validate(): a module that
\* holds a table with initial = 0 or maximum < initial is reported not valid, with
\* InvalidTableSize among the errors, and load_module refuses it.
C14_InvalidTableRejected ==
    HasInvalidTable(module) =>
        /\ IsSome(validation) =>
               /\ ~validation.some.is_valid
               /\ \E j \in 1..Len(validation.some.errors) :
                      validation.some.errors[j].kind = "InvalidTableSize"
        /\ Moved => result.outcome = "Err"

HasInvalidGlobal(m) == \E k \in 1..Len(m.globals) : ~GlobalValidate(m.globals[k]).ok

\* C15: a module is valid only if all its members validate: a module that holds a
\* global whose initial value is not of its declared value type is reported not
\* valid and load_module refuses it.
C15_InvalidGlobalRejected ==
    HasInvalidGlobal(module) =>
        /\ IsSome(validation) => ~validation.some.is_valid
        /\ Moved => result.outcome = "Err"

\* instruction, feature that gates it
GatedInstructions ==
    { <<"MemoryCopy", "BulkMemoryOperations">>,
      <<"ReturnCall", "TailCallOptimization">>,
      <<"Throw", "ExceptionHandling">>,
      <<"TryCatch", "ExceptionHandling">>,
      <<"TryCatchAll", "ExceptionHandling">>,
      <<"V128Add", "SimdInstructions">> }

UsesGatedInstruction(m) ==
    \E k \in 1..Len(m.functions) :
        \E j \in 1..Len(m.functions[k].body) :
            \E gate \in GatedInstructions :
                /\ m.functions[k].body[j].op = gate[1]
                /\ gate[2] \notin Enabled(m)

\* C16: Module::validate rejects a module in which a function body uses an
\* instruction of a feature-gated family (bulk memory, tail call, exception
\* handling, SIMD) while the feature the family requires is not enabled.
C16_GatedInstructionRejected ==
    (IsSome(validation) /\ UsesGatedInstruction(module)) => ~validation.some.is_valid

\* C17: a failed load_module returns the error of the check that failed: where
\* Module::validate reports one error for the module, a FeatureDependencyError
\* (TailCallOptimization without MultiValue) or an InvalidExceptionTag (a Throw of
\* an undeclared tag), load_module returns that error.
C17_LoadReturnsTheFailedCheck ==
    (Moved /\ result.outcome = "Err") =>
        LET errors == ModuleValidate(module).errors IN
        ( /\ Len(errors) = 1
          /\ errors[1].kind \in {"FeatureDependencyError", "InvalidExceptionTag"} )
        => result.error = errors[1]

\* C18: Module::validate is pure and deterministic: a validate call leaves every
\* field of the module and the runtime as they were, and a validate call that
\* follows another on the same module returns the same is_valid and the same
\* errors in the same order.
C18_ValidatePure ==
    [][(IsSome(validation') /\ ~Moved') =>
          /\ module' = module
          /\ UNCHANGED runtimeVars
          /\ IsSome(validation) =>
                 /\ validation'.some.is_valid = validation.some.is_valid
                 /\ validation'.some.errors = validation.some.errors]_vars

\* a module with ExceptionHandling enabled before TailCallOptimization and neither
\* dependency: validate reported the two errors in the order of its checks and
\* left the module with it
C18_Witness ==
    /\ ~Moved
    /\ module.features = <<"ExceptionHandling", "TailCallOptimization">>
    /\ IsSome(validation)
    /\ ~validation.some.is_valid
    /\ validation.some.errors =
           <<FeatureDependencyError("TailCallOptimization", "MultiValue"),
             FeatureDependencyError("ExceptionHandling", "ReferenceTypes")>>

\* C19: the module registry only grows: over load_module and execute_function
\* calls a module id once registered stays registered, with its execution
\* environment, and the number of registered modules never decreases.
C19_RegistryOnlyGrows ==
    [][/\ DOMAIN modules \subseteq DOMAIN modules'
       /\ DOMAIN execution_environments \subseteq DOMAIN execution_environments'
       /\ Cardinality(DOMAIN modules') >= Cardinality(DOMAIN modules)]_vars

\* two modules registered, executions recorded, and the last call refused
C19_Witness ==
    /\ {1, 2} \subseteq DOMAIN modules
    /\ {1, 2} \subseteq DOMAIN execution_environments
    /\ performance_stats.execution_count > 0
    /\ result.op = "execute_function"
    /\ result.outcome = "Err"

\* the instructions of a body the interpreter acts on: the I32Const and I32Add
\* before its first Return
RECURSIVE Effective(_)
Effective(body) ==
    IF body = <<>> \/ Head(body).op = "Return" THEN <<>>
    ELSE (IF Head(body).op \in {"I32Const", "I32Add"} THEN <<Head(body)>> ELSE <<>>)
             \o Effective(Tail(body))

\* C20: in execute_function, Return stops execution, so that no instruction after
\* the first Return affects what is returned, and every instruction other than
\* I32Const, I32Add and Return is a no-op that leaves the operand stack as it was
\* and never makes the call fail: the call returns what the same call returns on
\* the body cut at its first Return and stripped of such instructions.
C20_ReturnStopsNoOpsSkipped ==
    [][result'.op = "execute_function" =>
          \A module_id \in DOMAIN modules, function_index \in FunctionIndexInputs :
              ( /\ function_index < Len(modules[module_id].functions)
                /\ \E args \in ArgInputs, execution_time \in DurationInputs :
                       ExecuteFunction(module_id, function_index, args, execution_time,
                                       FALSE) )
              => LET function == modules[module_id].functions[function_index + 1] IN
                 result' = ExecuteFunctionInternal(
                               module_id,
                               [function EXCEPT !.body = Effective(function.body)], <<>>)]_vars

\* the function with a MemoryCopy between its constants returned their sum
C20_Witness ==
    /\ result = ExecuteOk(<<I32(7)>>)
    /\ \E id \in ModuleIds :
           /\ DOMAIN modules = {id}
           /\ modules[id].functions = <<CopyOutOfRange, AddOverflow, SkipNoOps>>

\* C21: execute_function terminates for every loaded function body, bodies with
\* a ReturnCall or ReturnCallIndirect of the function itself included: a call in
\* progress comes to its end, and the host call depth stays that of the one call.
C21_Terminates ==
    /\ [](frame.status = "running" => frame.depth = 1)
    /\ (frame.status = "running") ~> (frame.status = "done")

IsSelfTailCall(instruction, function_index) ==
    /\ instruction.op \in {"ReturnCall", "ReturnCallIndirect"}
    /\ instruction.index = function_index

\* a call of a function that tail-calls itself has returned
C21_Witness ==
    /\ frame.status = "done"
    /\ result.op = "execute_function"
    /\ result.outcome = "Ok"
    /\ \E k \in 1..Len(frame.body) : IsSelfTailCall(frame.body[k], frame.function_index)

\* the positions in the try block of a TryCatch or TryCatchAll of the Throw
\* instructions the block catches
CaughtAt(block) ==
    { k \in 1..Len(block.try_instructions) :
          /\ block.try_instructions[k].op = "Throw"
          /\ \/ block.op = "TryCatchAll"
             \/ block.try_instructions[k].tag = block.catch_label }

\* what a block that catches a Throw executes: its try block up to the first Throw
\* it catches, then its catch block
Handled(block) ==
    LET first == CHOOSE k \in CaughtAt(block) : \A j \in CaughtAt(block) : k <= j IN
    SubSeq(block.try_instructions, 1, first - 1)
        \o (IF block.op = "TryCatch" THEN block.catch_instructions
            ELSE block.catch_all_instructions)

\* C22: when a TryCatch is executed and a Throw in its try block has the tag of
\* catch_label (for a TryCatchAll: any tag), control goes to the catch block,
\* whose effect on the operand stack shows in the result, and the rest of the try
\* block is not executed: a function whose body is one such block returns what
\* the try block up to the Throw followed by the catch block leaves on the stack.
C22_ThrowTransfersToCatch ==
    ( /\ frame.status = "done"
      /\ result.op = "execute_function"
      /\ result.outcome = "Ok"
      /\ Len(frame.body) = 1
      /\ frame.body[1].op \in {"TryCatch", "TryCatchAll"}
      /\ CaughtAt(frame.body[1]) # {} )
    => LET run == RunFrom(Handled(frame.body[1]), 1, <<>>) IN
       result.values = (IF Len(run.stack) > 0 THEN <<run.stack[Len(run.stack)]>>
                        ELSE <<I32(0)>>)

ThrowsOwnTag(handler) ==
    \E j \in 1..Len(handler.handler_instructions) :
        /\ handler.handler_instructions[j].op = "Throw"
        /\ handler.handler_instructions[j].tag = handler.tag

\* C23: ExceptionHandler::validate rejects a handler of a valid exception type
\* with InvalidInstructionInHandler exactly when its handler_instructions hold a
\* Throw of the handler's own tag; a handler that throws only other tags, or
\* nothing, is accepted.
C23_OwnTagThrowRejected ==
    ( /\ IsSome(validation)
      /\ \A k \in 1..Len(module.exception_handlers) :
             ExceptionTypeValidate(module.exception_handlers[k].exception_type).ok )
    => Occurrences(validation.some.errors, InvalidInstructionInHandler)
           = Cardinality({ k \in 1..Len(module.exception_handlers) :
                               ThrowsOwnTag(module.exception_handlers[k]) })

BoundsValid(memory) ==
    /\ memory.initial > 0
    /\ IsSome(memory.maximum) => memory.maximum.some >= memory.initial

MemoryErrors(errors) ==
    { j \in 1..Len(errors) : errors[j].kind \in {"InvalidMemorySize", "InvalidSharedMemory"} }

\* C24: Memory::validate returns InvalidMemorySize for every memory with
\* initial = 0 (carrying initial) and for every memory whose maximum is present
\* and less than initial (carrying the maximum), and Ok for every memory built by
\* Memory::new with initial > 0 and maximum absent or at least initial.
C24_MemorySizeValidated ==
    (IsSome(validation) /\ Len(module.memories) = 1) =>
        LET memory == module.memories[1]
            errors == validation.some.errors
        IN /\ memory.initial = 0 =>
                  /\ SeqContains(errors, InvalidMemorySize(memory.initial))
                  /\ ~validation.some.is_valid
           /\ (memory.initial > 0 /\ ~BoundsValid(memory)) =>
                  /\ SeqContains(errors, InvalidMemorySize(memory.maximum.some))
                  /\ ~validation.some.is_valid
           /\ (memory \in NewMemoryInputs /\ BoundsValid(memory)) =>
                  MemoryErrors(errors) = {}

\* a memory of two pages with a maximum of one was validated
C24_Witness ==
    /\ IsSome(validation)
    /\ Len(module.memories) = 1
    /\ module.memories[1].initial = 2
    /\ module.memories[1].maximum = Some(1)
    /\ validation.some.errors = <<InvalidMemorySize(1)>>

\* C25: a memory is shared only if its kind is Shared: every memory Memory::new
\* returns has shared = (memory_type is Shared), and Memory::validate returns
\* InvalidSharedMemory for every memory with shared set, a memory_type other than
\* Shared and valid size bounds.
C25_SharedOnlyIfSharedKind ==
    \A k \in 1..Len(module.memories) :
        LET memory == module.memories[k] IN
        /\ memory \in NewMemoryInputs => (memory.shared <=> memory.memory_type = "Shared")
        /\ ( /\ IsSome(validation)
             /\ memory.shared
             /\ memory.memory_type # "Shared"
             /\ BoundsValid(memory) )
           => /\ SeqContains(validation.some.errors, InvalidSharedMemory)
              /\ ~validation.some.is_valid

\* a Memory64 memory with valid bounds and shared set was validated
C25_Witness ==
    /\ IsSome(validation)
    /\ Len(module.memories) = 1
    /\ module.memories[1].shared
    /\ module.memories[1].memory_type = "Memory64"
    /\ validation.some.errors = <<InvalidSharedMemory>>

HandlerErrors(errors) ==
    { j \in 1..Len(errors) :
          errors[j].kind \in {"InvalidExceptionType", "EmptyExceptionType",
                              "InvalidInstructionInHandler"} }

C27_AverageIsTotalOverCount ==
    performance_stats.execution_count > 0 =>
        /\ performance_stats.average_execution_time
               = performance_stats.total_execution_time \div performance_stats.execution_count
        /\ performance_stats.min_execution_time <= performance_stats.average_execution_time
        /\ performance_stats.average_execution_time <= performance_stats.max_execution_time

\* what execute_function_internal makes of an operand stack
TopOrZero(stack) == IF Len(stack) > 0 THEN <<stack[Len(stack)]>> ELSE <<I32(0)>>

\* C28: every successful execute_function call returns a vector of exactly one
\* value, whatever number of results the function declares and whatever args are
\* passed: the top of the operand stack when the loop ends, or I32(0) when the
\* stack is empty; the args never reach the operand stack, so the call returns
\* the same for every args.
C28_OneValueReturned ==
    [][(result'.op = "execute_function" /\ result'.outcome = "Ok") =>
          /\ Len(result'.values) = 1
          /\ \A module_id \in DOMAIN modules, function_index \in FunctionIndexInputs :
                 ( /\ function_index < Len(modules[module_id].functions)
                   /\ \E args \in ArgInputs, execution_time \in DurationInputs :
                          ExecuteFunction(module_id, function_index, args,
                                          execution_time, FALSE) )
                 => LET function == modules[module_id].functions[function_index + 1] IN
                    /\ result'.values = TopOrZero(RunFrom(function.body, 1, <<>>).stack)
                    /\ \A args \in ArgInputs :
                           \E execution_time \in DurationInputs :
                               ExecuteFunction(module_id, function_index, args,
                                               execution_time, FALSE)]_vars

\* the function that declares no result returned one value, the 3 it left on
\* the stack at Return
C28_Witness ==
    /\ result = ExecuteOk(<<I32(3)>>)
    /\ DOMAIN modules # {}
    /\ \A id \in DOMAIN modules : modules[id].functions = <<AddFallthrough, EarlyReturn>>

\* C29: execute_function, whether it returns Ok or Err, leaves the module
\* registry and the execution-environment registry as they were: the same ids,
\* every stored module identical; only performance_stats may change.
C29_ExecuteLeavesRegistries ==
    [][result'.op = "execute_function" =>
          /\ modules' = modules
          /\ execution_environments' = execution_environments]_vars

\* a call refused for its function index on a runtime that holds one module and
\* has recorded two calls
C29_Witness ==
    /\ result.op = "execute_function"
    /\ result.error = FeatureDependencyError("Function", "FunctionIndex")
    /\ Cardinality(DOMAIN modules) = 1
    /\ performance_stats.execution_count = 2

\* C30: loading a valid module whose id is already in the registry succeeds,
\* replaces the stored module by the one loaded and its execution environment by
\* a fresh one, leaves the other entries and the number of entries as they were,
\* and execute_function on that id then runs the functions of the module loaded
\* last.
C30_ReloadReplaces ==
    [][/\ (result'.op = "load_module" /\ result'.outcome = "Ok") =>
              \A m \in ModuleInputs :
                  LoadModule(m) =>
                      /\ modules'[m.id] = m
                      /\ execution_environments'[m.id]
                             = ExecutionEnvironmentNew(m.id, EnvMemorySize)
                      /\ \A id \in DOMAIN modules \ {m.id} : modules'[id] = modules[id]
                      /\ m.id \in DOMAIN modules =>
                             /\ DOMAIN modules' = DOMAIN modules
                             /\ DOMAIN execution_environments' = DOMAIN execution_environments
       /\ (result'.op = "execute_function" /\ result'.outcome = "Ok") =>
              \E module_id \in DOMAIN modules :
                  \E k \in 1..Len(modules[module_id].functions) :
                      result'.values
                          = TopOrZero(RunFrom(modules[module_id].functions[k].body, 1,
                                              <<>>).stack)]_vars

\* the one id of the registry was loaded with functions and called, then loaded
\* again with a module of no functions
C30_Witness ==
    /\ result = LoadOk(1)
    /\ DOMAIN modules = {1}
    /\ modules[1].functions = <<>>
    /\ performance_stats.execution_count > 0

====
